---- MODULE Spec2Model ----
(***************************************************************************)
(* Workshop registration backend (routes.py, models.py): the registration  *)
(* state machine and the capacity engine.                                  *)
(*                                                                         *)
(* The database is the pair (workshops, regs).  Times are in seconds.      *)
(* Each request handler is one action of Spec (requests served one at a    *)
(* time); ConcSpec and StressSpec interleave the handlers' queries and     *)
(* commits.  DeskSpec serves the organisers' requests (create and edit a   *)
(* workshop), SkillSpec the skills and profile requests.                   *)
(***************************************************************************)
EXTENDS Integers, FiniteSets, Sequences, TLC

\* ---------------------------------------------------------------- bounds
NUsers == 3          \* rows of the Users table
MaxCap == 3          \* largest capacity an edit may set
MaxTime == 1         \* clock readings after the first
NProcs == 2          \* requests in flight at once (ConcSpec)
MaxWorkshops == 2    \* rows of the Workshop table (DeskSpec)
MaxSkills == 4       \* rows of the Skill table (SkillSpec)
MaxList == 2         \* items of a skills payload

\* ------------------------------------------------------ program constants
\* routes.py:14  ALLOWED_OVERLAP = timedelta(minutes=1), in seconds
ALLOWED_OVERLAP == 60

\* <int:w_id> of a request: a workshop of the table, or 0, which is none
WorkshopIds(wss) == DOMAIN wss \cup {0}
Capacities == 0..MaxCap

\* models.py:36-40  class RegistrationStatus(str, enum.Enum)
REGISTERED == "Registered"
WAITLISTED == "Waitlisted"
CANCELLED == "Cancelled"
RegistrationStatus == {REGISTERED, WAITLISTED, CANCELLED}

\* models.py:43-50  RegistrationStatus.status_id
status_id(s) ==
    CASE s = REGISTERED -> 1
      [] s = WAITLISTED -> 2
      [] s = CANCELLED -> 3

\* models.py:198-206  Registration.Status getter on an instance:
\* status_mapping.get(self._status, RegistrationStatus.REGISTERED)
StatusGet(i) ==
    CASE i = 1 -> REGISTERED
      [] i = 2 -> WAITLISTED
      [] i = 3 -> CANCELLED
      [] OTHER -> REGISTERED

\* a setter that stores the id of the next status
StatusSetShifted(value) ==
    IF value \in RegistrationStatus THEN (status_id(value) % 3) + 1 ELSE value

\* models.py:208-221  Registration.Status setter (enum or integer)
StatusSet(value) ==
    IF value \in RegistrationStatus THEN status_id(value) ELSE value

\* models.py:198-206  Registration.Status read on the CLASS, as the queries of
\* routes.py do.  The hybrid property declares no SQL expression, so the
\* getter runs with the class as self: self._status is then the column
\* object, which is no key of status_mapping, and dict.get returns its
\* default.  The class-level value is the plain enum member REGISTERED, not
\* a column (tests/test_scenarios.py:564-565 records the effect: "filter_by
\* result comes out incorrect").
StatusClassValue == REGISTERED

\* filter_by(Status=s) and filter(Registration.Status == s): the criterion is
\* the Python comparison StatusClassValue == s, one boolean for every row.
StatusCriterion(row, s) == StatusClassValue = s

\* filter(Registration.Status.in_([...])): the enum member has no in_
\* method, so building the query raises AttributeError.
StatusInRaises == StatusClassValue \in RegistrationStatus

VARIABLES
    workshops,   \* Workshop table: WorkshopId -> row
    regs,        \* Registration table: set of rows
    clock,       \* latest clock reading
    users,       \* Users table: UserId -> row
    leaders,     \* WorkshopLeader table: set of rows
    skills,      \* Skill table: SkillId -> Name
    userSkills,  \* UserSkill table: set of rows
    last,        \* the response to the request served last
    procs        \* requests in flight (ConcSpec, StressSpec)

vars == <<users, leaders, skills, userSkills, workshops, regs, clock, last, procs>>

\* ------------------------------------------------------------- the tables
\* models.py:14-17  class UserRole(str, enum.Enum)
ADMIN == "ADMIN"
WORKSHOP_LEADER == "WORKSHOP_LEADER"
PARTICIPANT == "PARTICIPANT"

UserRole == {ADMIN, WORKSHOP_LEADER, PARTICIPANT}

\* models.py:19-27  UserRole.level
level(role) ==
    CASE role = ADMIN -> 100
      [] role = WORKSHOP_LEADER -> 2
      [] role = PARTICIPANT -> 1

\* the >= of str, which UserRole would inherit: the names in dictionary order
StrGe(self, other) ==
    LET place(role) == CASE role = ADMIN -> 1
                         [] role = PARTICIPANT -> 2
                         [] role = WORKSHOP_LEADER -> 3
    IN  place(self) >= place(other)

\* models.py:29-33  UserRole.__ge__ (both operands are roles)
UserRole_ge(self, other) == level(self) >= level(other)

\* models.py:64-72  Users.Role getter on an instance:
\* role_mapping.get(self._role, UserRole.PARTICIPANT)
RoleGet(i) ==
    CASE i = 1 -> PARTICIPANT
      [] i = 2 -> WORKSHOP_LEADER
      [] i = 100 -> ADMIN
      [] OTHER -> PARTICIPANT

\* models.py:74-87  Users.Role setter (enum or integer)
RoleSet(value) ==
    IF value \in UserRole
    THEN CASE value = PARTICIPANT -> 1
           [] value = WORKSHOP_LEADER -> 2
           [] value = ADMIN -> 100
    ELSE value

\* models.py:58, 195  default=1 of the columns Role and Status
ROLE_DEFAULT == 1
STATUS_DEFAULT == 1

\* models.py:53-58  Users(Role=role): the setter stores the integer, the row
\* shows what the getter reads
UserRow(role) == [Role |-> RoleGet(RoleSet(role))]

\* models.py:95-97  Users.has_role_level
has_role_level(us, u, min_role) == UserRole_ge(us[u].Role, min_role)

\* models.py:99-101  Users.can_manage_workshops
can_manage_workshops(us, u) == UserRole_ge(us[u].Role, WORKSHOP_LEADER)

\* models.py:162-165  WorkshopLeader
WorkshopLeaderRow(w, u) == [WorkshopId |-> w, LeaderId |-> u]

\* models.py:103-105  Users.is_admin
is_admin(us, u) == us[u].Role = ADMIN

\* models.py:107-112  Users.is_workshop_leader_for
is_workshop_leader_for(ls, u, w) == WorkshopLeaderRow(w, u) \in ls

\* models.py:114-116  Users.can_manage_workshop
can_manage_workshop(us, ls, u, w) ==
    is_admin(us, u) \/ is_workshop_leader_for(ls, u, w)

\* models.py:147-154  Workshop
WorkshopRow(title, description, start, dur, cap) ==
    [Title |-> title, Description |-> description,
     SessionDateTime |-> start, DurationMin |-> dur, MaxCapacity |-> cap]

\* models.py:184-195  Registration.  RegistrationId is the primary key; the
\* model keeps of it what tells two rows apart: the row's number among the
\* rows of its (UserId, WorkshopId) pair (1 for the first).
RegistrationRow(id, u, w, st, at) ==
    [RegistrationId |-> id, UserId |-> u, WorkshopId |-> w,
     StatusInt |-> st, RegisteredAt |-> at]

NoRow == RegistrationRow(0, 0, 0, 0, 0)

\* Query.first(): some row of the result, None when it is empty
First(rows) == IF rows = {} THEN {NoRow} ELSE rows

\* routes.py:756  Registration.query.filter_by(UserId=..., WorkshopId=w_id)
ExistingRegistration(rs, u, w) ==
    {r \in rs : r.UserId = u /\ r.WorkshopId = w}

\* routes.py:895-901  _get_registered_count
_get_registered_count(rs, w) ==
    Cardinality({r \in rs : r.WorkshopId = w /\ StatusCriterion(r, REGISTERED)})

\* routes.py:914-915, 928-929  start + timedelta(minutes=DurationMin)
EndOf(ws) == ws.SessionDateTime + 60 * ws.DurationMin

Max2(a, b) == IF a >= b THEN a ELSE b
Min2(a, b) == IF a <= b THEN a ELSE b

\* routes.py:931-934  overlap_duration = earliest_end - latest_start
overlap_duration(a, b) ==
    Min2(EndOf(a), EndOf(b)) - Max2(a.SessionDateTime, b.SessionDateTime)

\* routes.py:919-923  the user's other registrations the check iterates over
OverlapCandidates(rs, u, w) ==
    {r \in rs : /\ r.UserId = u
                /\ StatusCriterion(r, REGISTERED)
                /\ r.WorkshopId # w}

\* a check that never finds a conflict
NoOverlapCheck(rs, wss, u, w) == {0}

\* routes.py:904-940  _check_for_registration_overlap: the ids it may return
\* (0 for None).  The query has no ORDER BY, so the first conflict found is
\* any of the conflicting workshops.
_check_for_registration_overlap(rs, wss, u, w) ==
    LET conflicts == {r.WorkshopId : r \in
            {q \in OverlapCandidates(rs, u, w) :
                overlap_duration(wss[w], wss[q.WorkshopId]) > ALLOWED_OVERLAP}}
    IN  IF conflicts = {} THEN {0} ELSE conflicts

\* datetime.now(timezone.utc) / func.now(): the clock has not moved since the
\* last reading, or has moved on
Now(ck) == {t \in {ck, ck + 1} : t <= MaxTime}

\* a table without the unique constraint
NoUniqueConstraint(rs, u, w) == FALSE

\* models.py:186-188  UniqueConstraint('UserId', 'WorkshopId')
UniqueViolation(rs, u, w) == ExistingRegistration(rs, u, w) # {}

\* ------------------------------------------------------------- responses
\* A response: the HTTP code, its 'error' / 'status' / 'message' text, the
\* registration status it reports, and the workshop id or capacity it reports
Response(code, text, status, n) ==
    [code |-> code, text |-> text, status |-> status, n |-> n]

NotFound == Response(404, "Not Found", "", 0)
InternalError == Response(500, "Internal Server Error", "", 0)

\* routes.py:763-764
AlreadySignedUp(st) == Response(400, "Already signed up", st, 0)
\* routes.py:769
AlreadyOnWaitlist(st) == Response(400, "Already on waitlist", st, 0)
\* routes.py:776-778
Conflict(c) == Response(409, "Conflict", "", c)
\* routes.py:782-787, 806-810
Registered(st) ==
    Response(200,
             IF st = REGISTERED THEN "Signed up successfully" ELSE "Added to waitlist",
             st, 0)

\* NewStatus with the comparison off by one (> for >=)
NewStatusOffByOne(registered_count, capacity) ==
    IF registered_count > capacity THEN WAITLISTED ELSE REGISTERED

\* routes.py:781-787  the status decided for the registration
NewStatus(registered_count, capacity) ==
    IF registered_count >= capacity THEN WAITLISTED ELSE REGISTERED

\* UpdateRegistration as an INSERT of one more row for the pair
UpdateByInsert(rs, ex, loaded, new_status, t) ==
    rs \cup {[ex EXCEPT !.RegistrationId = ex.RegistrationId + 1,
                        !.StatusInt = StatusSet(new_status),
                        !.RegisteredAt = t]}

\* routes.py:790-793  UPDATE of the loaded row: the unit of work writes the
\* attributes whose value differs from the loaded one; RegisteredAt always
UpdateRegistration(rs, ex, loaded, new_status, t) ==
    {IF /\ r.RegistrationId = ex.RegistrationId
        /\ r.UserId = ex.UserId
        /\ r.WorkshopId = ex.WorkshopId
        THEN [r EXCEPT !.StatusInt = IF StatusSet(new_status) = loaded
                                        THEN r.StatusInt
                                        ELSE StatusSet(new_status),
                       !.RegisteredAt = t]
        ELSE r : r \in rs}

\* routes.py:795-797  INSERT of a new row
InsertRegistration(rs, u, w, new_status, t) ==
    rs \cup {RegistrationRow(Cardinality(ExistingRegistration(rs, u, w)) + 1,
                             u, w, StatusSet(new_status), t)}

\* RowsToCancel with the order reversed (earliest RegisteredAt first)
RowsToCancelEarliestFirst(rs, w, num_participants) ==
    LET matching == {r \in rs : r.WorkshopId = w /\ StatusCriterion(r, REGISTERED)}
        k == IF num_participants <= Cardinality(matching)
                THEN num_participants ELSE Cardinality(matching)
    IN  {S \in SUBSET matching :
            /\ Cardinality(S) = k
            /\ \A a \in S, b \in matching \ S : a.RegisteredAt <= b.RegisteredAt}

\* routes.py:947-950  the rows the demotion query may return:
\* filter_by(WorkshopId, Status=REGISTERED).order_by(RegisteredAt.desc())
\* .limit(num_participants); rows with equal RegisteredAt come in any order
RowsToCancel(rs, w, num_participants) ==
    LET matching == {r \in rs : r.WorkshopId = w /\ StatusCriterion(r, REGISTERED)}
        k == Min2(num_participants, Cardinality(matching))
    IN  {S \in SUBSET matching :
            /\ Cardinality(S) = k
            /\ \A a \in S, b \in matching \ S : a.RegisteredAt >= b.RegisteredAt}

\* routes.py:952-953, 822  reg.Status = RegistrationStatus.CANCELLED
CancelRows(rs, S) ==
    {IF r \in S THEN [r EXCEPT !.StatusInt = StatusSet(CANCELLED)] ELSE r : r \in rs}

\* routes.py:816-819  the rows of the unregister query, once it is built
ActiveRegistration(rs, u, w) ==
    {r \in ExistingRegistration(rs, u, w) :
        StatusGet(r.StatusInt) \in {REGISTERED, WAITLISTED}}

\* routes.py:827-831
Cancelled(previous_status) == Response(200, "Cancelled", previous_status, 0)
\* routes.py:712-715
RemoveFailed == Response(500, "Internal Server Error", "", 0)
\* routes.py:678-681
Forbidden == Response(403, "Forbidden", "", 0)
\* routes.py:738-747  'capacity': workshop.MaxCapacity
Updated(capacity) == Response(200, "Workshop updated successfully.", "", capacity)

\* ------------------------------------------------------ requests in flight
Workers == 1..Max2(NUsers, NProcs)

\* The locals of a handler: the workshop's capacity as loaded (w.MaxCapacity,
\* curr_capacity), existing_registration, new_status, new_capacity, diff and
\* the rows selected for demotion
Idle ==
    [pc |-> "idle", user |-> 0, ws |-> 0, cap |-> 0, ex |-> NoRow,
     status |-> "", n |-> 0, diff |-> 0, rows |-> {}]

\* ------------------------------------------------------- request payloads
\* A value of a JSON payload as the handlers test it: a key that is absent
\* (data.get gives None), a string, or an integer
Missing == [type |-> "absent", s |-> "", n |-> 0]
String(x) == [type |-> "str", s |-> x, n |-> 0]
Number(i) == [type |-> "int", s |-> "", n |-> i]

\* isinstance(v, str), isinstance(v, int)
isinstance_str(v) == v.type = "str"
isinstance_int(v) == v.type = "int"

\* str.strip() on the strings the requests carry
strip(x) ==
    CASE x = "   " -> ""
      [] x = " New Title " -> "New Title"
      [] x = " SQL " -> "SQL"
      [] x = " Python" -> "Python"
      [] OTHER -> x

\* str.lower() of Python: every cased letter is folded
lower(x) ==
    CASE x = "Python" -> "python"
      [] x = "SQL" -> "sql"
      [] x = "École" -> "école"
      [] OTHER -> x

\* lower() of SQLite: only the letters A-Z are folded
sqlite_lower(x) ==
    CASE x = "Python" -> "python"
      [] x = "SQL" -> "sql"
      [] OTHER -> x

\* db_selector.py:18  os.environ.get("DB_TYPE", "sqlite")
DB_TYPE == "sqlite"

\* routes.py:496  func.lower(Skill.Name), computed by the database
func_lower(x) == IF DB_TYPE = "sqlite" THEN sqlite_lower(x) ELSE lower(x)

\* ------------------------------------------------------- the skill tables
\* models.py:125-132  Skill: SkillId (the index) -> Name
\* models.py:135-145  UserSkill.  UserSkillId, the primary key, is left out:
\* rows that agree on the three other columns are one row of the model
UserSkillRow(u, skill_id, grade) == [UserId |-> u, SkillId |-> skill_id, Grade |-> grade]

\* test_scenarios.py:78-87  the seeded skills and the participant's skill
SeedSkills == <<"python", "javascript">>

\* ----------------------------------------------------------------- Init
\* Workshop 1 runs 01:00-02:30, workshop 3 follows it back to back for an
\* hour, workshop 2 lasts an hour and starts at one of Starts.
Starts == {2400, 8000, 8939, 8940, 9000, 12600}

\* The seeded database.  Either one workshop, its leader (user 1) and the
\* participants; or one participant and a day of three workshops that nobody
\* present may edit, the third of them without seats.
Init ==
    /\ \/ /\ users = [u \in 1..NUsers |->
                        UserRow(IF u = 1 THEN WORKSHOP_LEADER ELSE PARTICIPANT)]
          /\ leaders = {WorkshopLeaderRow(1, 1)}
          /\ workshops = (1 :> WorkshopRow("Intro", "", 3600, 90, 1))
       \/ /\ users = (1 :> UserRow(PARTICIPANT))
          /\ leaders = {}
          /\ \E s \in Starts :
                workshops = (1 :> WorkshopRow("Intro", "", 3600, 90, 1)
                          @@ 2 :> WorkshopRow("Lab", "", s, 60, 1)
                          @@ 3 :> WorkshopRow("Talk", "", 9000, 60, 0))
    /\ regs = {}
    /\ skills = SeedSkills
    /\ userSkills = {}
    /\ clock = 0
    /\ last = Response(0, "", "", 0)
    /\ procs = [p \in Workers |-> Idle]

\* -------------------------------------------------- handlers, one at a time
\* What a handler leaves behind: its response and the database it commits
Outcome(resp, rs, wss, ck) ==
    [resp |-> resp, regs |-> rs, workshops |-> wss, clock |-> ck]

\* routes.py:780-810  register_to_workshop once the guards have passed: the
\* decision, the write and the commit, for the loaded row ex (NoRow: none)
RegisterWrite(rs, wss, ck, u, w, ex) ==
    LET new_status == NewStatus(_get_registered_count(rs, w), wss[w].MaxCapacity)
    IN  {Outcome(Registered(new_status),
                 IF ex # NoRow
                    THEN UpdateRegistration(rs, ex, ex.StatusInt, new_status, t)
                    ELSE InsertRegistration(rs, u, w, new_status, t),
                 wss, t) : t \in Now(ck)}

\* RegisterLoaded without its first guard (routes.py:762-764)
RegisterLoadedNoGuard(rs, wss, ck, u, w, ex) ==
    IF /\ ex # NoRow
       /\ StatusGet(ex.StatusInt) = WAITLISTED
       /\ _get_registered_count(rs, w) >= wss[w].MaxCapacity
    THEN {Outcome(AlreadyOnWaitlist(StatusGet(ex.StatusInt)), rs, wss, ck)}
    ELSE UNION {IF c # 0
                   THEN {Outcome(Conflict(c), rs, wss, ck)}
                   ELSE RegisterWrite(rs, wss, ck, u, w, ex)
                : c \in _check_for_registration_overlap(rs, wss, u, w)}

\* RegisterLoaded with the row written before the conflict check
RegisterLoadedWriteFirst(rs, wss, ck, u, w, ex) ==
    IF ex # NoRow /\ StatusGet(ex.StatusInt) = REGISTERED
    THEN {Outcome(AlreadySignedUp(StatusGet(ex.StatusInt)), rs, wss, ck)}
    ELSE IF /\ ex # NoRow
            /\ StatusGet(ex.StatusInt) = WAITLISTED
            /\ _get_registered_count(rs, w) >= wss[w].MaxCapacity
    THEN {Outcome(AlreadyOnWaitlist(StatusGet(ex.StatusInt)), rs, wss, ck)}
    ELSE UNION {IF c # 0
                   THEN {Outcome(Conflict(c), o.regs, wss, ck)
                         : o \in RegisterWrite(rs, wss, ck, u, w, ex)}
                   ELSE RegisterWrite(rs, wss, ck, u, w, ex)
                : c \in _check_for_registration_overlap(rs, wss, u, w)}

\* routes.py:755-810  register_to_workshop from the loaded row on
RegisterLoaded(rs, wss, ck, u, w, ex) ==
    IF ex # NoRow /\ StatusGet(ex.StatusInt) = REGISTERED
    THEN {Outcome(AlreadySignedUp(StatusGet(ex.StatusInt)), rs, wss, ck)}
    ELSE IF /\ ex # NoRow
            /\ StatusGet(ex.StatusInt) = WAITLISTED
            /\ _get_registered_count(rs, w) >= wss[w].MaxCapacity
    THEN {Outcome(AlreadyOnWaitlist(StatusGet(ex.StatusInt)), rs, wss, ck)}
    ELSE UNION {IF c # 0
                   THEN {Outcome(Conflict(c), rs, wss, ck)}
                   ELSE RegisterWrite(rs, wss, ck, u, w, ex)
                : c \in _check_for_registration_overlap(rs, wss, u, w)}

\* routes.py:749-810  register_to_workshop: the outcomes of one call
register_to_workshop(rs, wss, ck, u, w) ==
    IF w \notin DOMAIN wss
    THEN {Outcome(NotFound, rs, wss, ck)}
    ELSE UNION {RegisterLoaded(rs, wss, ck, u, w, ex)
                : ex \in First(ExistingRegistration(rs, u, w))}

\* an unregister that fails likewise but turns the workshop's other WAITLISTED
\* registrations into REGISTERED ones
UnregisterPromoting(rs, wss, ck, u, w) ==
    {Outcome(InternalError,
             {IF r.WorkshopId = w /\ r.UserId # u /\ StatusGet(r.StatusInt) = WAITLISTED
                 THEN [r EXCEPT !.StatusInt = StatusSet(REGISTERED)]
                 ELSE r : r \in rs},
             wss, ck)}

\* routes.py:812-831  unregister_to_workshop: the outcomes of one call
unregister_to_workshop(rs, wss, ck, u, w) ==
    IF StatusInRaises
    THEN {Outcome(InternalError, rs, wss, ck)}
    ELSE {IF registration = NoRow
             THEN Outcome(NotFound, rs, wss, ck)
             ELSE Outcome(Cancelled(StatusGet(registration.StatusInt)),
                          CancelRows(rs, {registration}), wss, ck)
          : registration \in First(ActiveRegistration(rs, u, w))}

\* routes.py:711  if not canceled_user_ids
RemovalFailed(canceled_user_ids) == canceled_user_ids = {}

\* routes.py:710-747  update_workshop once the demotion query has returned
\* the rows S: the demotions, the guard, the capacity and the response
UpdateAfterRemoval(rs, wss, ck, w, new_capacity, S) ==
    IF RemovalFailed(S)
    THEN Outcome(RemoveFailed, rs, wss, ck)
    ELSE Outcome(Updated(new_capacity), CancelRows(rs, S),
                 [wss EXCEPT ![w].MaxCapacity = new_capacity], ck)

\* routes.py:699-726  update_workshop, the 'capacity' field of the payload
UpdateCapacity(rs, wss, ck, w, new_capacity) ==
    LET registered_count == _get_registered_count(rs, w)
        edited == [wss EXCEPT ![w].MaxCapacity = new_capacity]
    IN  IF new_capacity < registered_count
        THEN {UpdateAfterRemoval(rs, wss, ck, w, new_capacity, S)
              : S \in RowsToCancel(rs, w, registered_count - new_capacity)}
        ELSE {Outcome(Updated(new_capacity), rs, edited, ck)}

\* routes.py:670-747  update_workshop: the outcomes of one call by user u; the
\* payload, read after the permission check, is {'capacity': new_capacity}
update_workshop(us, ls, rs, wss, ck, u, w) ==
    IF w \notin DOMAIN wss
    THEN {Outcome(NotFound, rs, wss, ck)}
    ELSE IF ~can_manage_workshop(us, ls, u, w)
    THEN {Outcome(Forbidden, rs, wss, ck)}
    ELSE UNION {UpdateCapacity(rs, wss, ck, w, new_capacity)
                : new_capacity \in Capacities}

\* The request is served: its response goes out, its commit is in the tables
Serve(o) ==
    /\ last' = o.resp
    /\ regs' = o.regs
    /\ workshops' = o.workshops
    /\ clock' = o.clock
    /\ UNCHANGED <<users, leaders, skills, userSkills, procs>>

Register(u, w) ==
    \E o \in register_to_workshop(regs, workshops, clock, u, w) : Serve(o)

Unregister(u, w) ==
    \E o \in unregister_to_workshop(regs, workshops, clock, u, w) : Serve(o)

UpdateWorkshop(u, w) ==
    \E o \in update_workshop(users, leaders, regs, workshops, clock, u, w) : Serve(o)

Next ==
    \/ \E u \in DOMAIN users, w \in WorkshopIds(workshops) : Register(u, w)
    \/ \E u \in DOMAIN users, w \in WorkshopIds(workshops) : Unregister(u, w)
    \/ \E u \in DOMAIN users, w \in WorkshopIds(workshops) : UpdateWorkshop(u, w)

Spec == Init /\ [][Next]_vars

\* routes.py:856-862  vacant: the 'vacant' of the answer for workshop w
vacant(rs, wss, w) == wss[w].MaxCapacity - _get_registered_count(rs, w)

\* ------------------------------------------- handlers, requests interleaved
\* A request in flight runs in its own session: each query reads the tables
\* as committed at that moment, each commit writes them, and what the handler
\* loaded before stays as loaded.  One step per query or commit.
\* The response goes out; the worker is free (after = "idle") or has served
\* its one request (after = "done")
Finish(p, resp, after) ==
    /\ procs' = [procs EXCEPT ![p] = [Idle EXCEPT !.pc = after]]
    /\ last' = resp

Goto(p, local) ==
    /\ procs' = [procs EXCEPT ![p] = local]
    /\ UNCHANGED last

\* routes.py:752-753  Workshop.query.get_or_404(w_id)
RegGetWorkshop(p, u, w, after) ==
    /\ procs[p].pc = "idle"
    /\ IF w \notin DOMAIN workshops
       THEN Finish(p, NotFound, after)
       ELSE Goto(p, [Idle EXCEPT !.pc = "reg_existing", !.user = u, !.ws = w,
                                  !.cap = workshops[w].MaxCapacity])
    /\ UNCHANGED <<users, leaders, skills, userSkills, workshops, regs, clock>>

\* routes.py:756-764  the existing registration and the first guard
RegExisting(p, after) ==
    LET l == procs[p] IN
    /\ l.pc = "reg_existing"
    /\ \E ex \in First(ExistingRegistration(regs, l.user, l.ws)) :
         IF ex # NoRow /\ StatusGet(ex.StatusInt) = REGISTERED
         THEN Finish(p, AlreadySignedUp(StatusGet(ex.StatusInt)), after)
         ELSE Goto(p, [l EXCEPT !.ex = ex,
                                !.pc = IF ex # NoRow THEN "reg_count" ELSE "reg_overlap"])
    /\ UNCHANGED <<users, leaders, skills, userSkills, workshops, regs, clock>>

\* routes.py:766-769  the count and the second guard
RegCount(p, after) ==
    LET l == procs[p] IN
    /\ l.pc = "reg_count"
    /\ IF /\ StatusGet(l.ex.StatusInt) = WAITLISTED
          /\ _get_registered_count(regs, l.ws) >= l.cap
       THEN Finish(p, AlreadyOnWaitlist(StatusGet(l.ex.StatusInt)), after)
       ELSE Goto(p, [l EXCEPT !.pc = "reg_overlap"])
    /\ UNCHANGED <<users, leaders, skills, userSkills, workshops, regs, clock>>

\* routes.py:771-778  the conflict check
RegOverlap(p, after) ==
    LET l == procs[p] IN
    /\ l.pc = "reg_overlap"
    /\ \E c \in _check_for_registration_overlap(regs, workshops, l.user, l.ws) :
         IF c # 0
         THEN Finish(p, Conflict(c), after)
         ELSE Goto(p, [l EXCEPT !.pc = "reg_decide"])
    /\ UNCHANGED <<users, leaders, skills, userSkills, workshops, regs, clock>>

\* routes.py:780-787  the fresh count and the decision
RegDecide(p) ==
    LET l == procs[p] IN
    /\ l.pc = "reg_decide"
    /\ Goto(p, [l EXCEPT !.pc = "reg_commit",
                         !.status = NewStatus(_get_registered_count(regs, l.ws), l.cap)])
    /\ UNCHANGED <<users, leaders, skills, userSkills, workshops, regs, clock>>

\* routes.py:789-810  the write and db.session.commit(); an INSERT that breaks
\* the unique constraint raises IntegrityError and the request ends in 500
RegCommit(p, after) ==
    LET l == procs[p] IN
    /\ l.pc = "reg_commit"
    /\ IF l.ex = NoRow /\ UniqueViolation(regs, l.user, l.ws)
       THEN /\ Finish(p, InternalError, after)
            /\ UNCHANGED <<regs, clock>>
       ELSE \E t \in Now(clock) :
              /\ clock' = t
              /\ regs' = IF l.ex # NoRow
                            THEN UpdateRegistration(regs, l.ex, l.ex.StatusInt, l.status, t)
                            ELSE InsertRegistration(regs, l.user, l.ws, l.status, t)
              /\ Finish(p, Registered(l.status), after)
    /\ UNCHANGED <<users, leaders, skills, userSkills, workshops>>

\* routes.py:814-819  unregister_to_workshop: the query is never sent
UnregQuery(p, u, w, after) ==
    /\ procs[p].pc = "idle"
    /\ StatusInRaises
    /\ Finish(p, InternalError, after)
    /\ UNCHANGED <<users, leaders, skills, userSkills, workshops, regs, clock>>

\* routes.py:675-703  update_workshop: get_or_404, the permission check, the
\* payload {'capacity': new_capacity}
UpdGetWorkshop(p, u, w, after) ==
    /\ procs[p].pc = "idle"
    /\ IF w \notin DOMAIN workshops
       THEN Finish(p, NotFound, after)
       ELSE IF ~can_manage_workshop(users, leaders, u, w)
       THEN Finish(p, Forbidden, after)
       ELSE \E new_capacity \in Capacities :
              Goto(p, [Idle EXCEPT !.pc = "upd_count", !.user = u, !.ws = w,
                                   !.cap = workshops[w].MaxCapacity,
                                   !.n = new_capacity])
    /\ UNCHANGED <<users, leaders, skills, userSkills, workshops, regs, clock>>

\* routes.py:705-709  registered_count and diff
UpdCount(p) ==
    LET l == procs[p]
        registered_count == _get_registered_count(regs, l.ws)
    IN
    /\ l.pc = "upd_count"
    /\ IF l.n < registered_count
       THEN Goto(p, [l EXCEPT !.pc = "upd_select",
                              !.diff = registered_count - l.n])
       ELSE Goto(p, [l EXCEPT !.pc = "upd_commit"])
    /\ UNCHANGED <<users, leaders, skills, userSkills, workshops, regs, clock>>

\* routes.py:947-950  the demotion query
UpdSelect(p) ==
    LET l == procs[p] IN
    /\ l.pc = "upd_select"
    /\ \E S \in RowsToCancel(regs, l.ws, l.diff) :
         Goto(p, [l EXCEPT !.pc = "upd_demote", !.rows = S])
    /\ UNCHANGED <<users, leaders, skills, userSkills, workshops, regs, clock>>

\* the rows of the table with the primary keys of the loaded rows S
SameRows(rs, S) ==
    {r \in rs : \E q \in S : /\ q.RegistrationId = r.RegistrationId
                             /\ q.UserId = r.UserId
                             /\ q.WorkshopId = r.WorkshopId}

\* routes.py:952-960, 711-715  the demotions and their db.session.commit()
UpdDemote(p, after) ==
    LET l == procs[p] IN
    /\ l.pc = "upd_demote"
    /\ regs' = CancelRows(regs, SameRows(regs, l.rows))
    /\ IF RemovalFailed(l.rows)
       THEN Finish(p, RemoveFailed, after)
       ELSE Goto(p, [l EXCEPT !.pc = "upd_commit", !.rows = {}])
    /\ UNCHANGED <<users, leaders, skills, userSkills, workshops, clock>>

\* routes.py:725-747  workshop.MaxCapacity = new_capacity and the commit
UpdCommit(p, after) ==
    LET l == procs[p] IN
    /\ l.pc = "upd_commit"
    /\ workshops' = [workshops EXCEPT ![l.ws].MaxCapacity = l.n]
    /\ Finish(p, Updated(l.n), after)
    /\ UNCHANGED <<users, leaders, skills, userSkills, regs, clock>>

\* Nobody has a request in flight or served
AllIdle == \A p \in Workers : procs[p].pc = "idle"

\* Requests served one at a time, then NProcs requests arrive at once, one
\* per worker
ConcNext ==
    \/ AllIdle /\ \E u \in DOMAIN users, w \in WorkshopIds(workshops) : Register(u, w)
    \/ AllIdle /\ \E u \in DOMAIN users, w \in WorkshopIds(workshops) : Unregister(u, w)
    \/ AllIdle /\ \E u \in DOMAIN users, w \in WorkshopIds(workshops) : UpdateWorkshop(u, w)
    \/ \E p \in 1..NProcs, u \in DOMAIN users, w \in WorkshopIds(workshops) :
          RegGetWorkshop(p, u, w, "done")
    \/ \E p \in 1..NProcs : RegExisting(p, "done")
    \/ \E p \in 1..NProcs : RegCount(p, "done")
    \/ \E p \in 1..NProcs : RegOverlap(p, "done")
    \/ \E p \in 1..NProcs : RegDecide(p)
    \/ \E p \in 1..NProcs : RegCommit(p, "done")
    \/ \E p \in 1..NProcs, u \in DOMAIN users, w \in WorkshopIds(workshops) :
          UnregQuery(p, u, w, "done")
    \/ \E p \in 1..NProcs, u \in DOMAIN users, w \in WorkshopIds(workshops) :
          UpdGetWorkshop(p, u, w, "done")
    \/ \E p \in 1..NProcs : UpdCount(p)
    \/ \E p \in 1..NProcs : UpdSelect(p)
    \/ \E p \in 1..NProcs : UpdDemote(p, "done")
    \/ \E p \in 1..NProcs : UpdCommit(p, "done")

\* One workshop, NProcs users, the first of them its leader
ConcInit ==
    /\ users = [u \in 1..NProcs |->
                  UserRow(IF u = 1 THEN WORKSHOP_LEADER ELSE PARTICIPANT)]
    /\ leaders = {WorkshopLeaderRow(1, 1)}
    /\ workshops = (1 :> WorkshopRow("Intro", "", 3600, 90, 1))
    /\ regs = {}
    /\ skills = SeedSkills
    /\ userSkills = {}
    /\ clock = 0
    /\ last = Response(0, "", "", 0)
    /\ procs = [p \in Workers |-> Idle]

ConcSpec == ConcInit /\ [][ConcNext]_vars

\* test_concurrent_registration.py:42-118  every user sends one register call
\* for the same workshop at the same time; nobody has a registration, so the
\* second guard (routes.py:766-769) is never reached
StressNext ==
    \/ \E p \in 1..NUsers : RegGetWorkshop(p, p, 1, "done")
    \/ \E p \in 1..NUsers : RegExisting(p, "done")
    \/ \E p \in 1..NUsers : RegOverlap(p, "done")
    \/ \E p \in 1..NUsers : RegDecide(p)
    \/ \E p \in 1..NUsers : RegCommit(p, "done")

\* test_concurrent_registration.py:20-40  one workshop with V seats, NUsers
\* participants, no registrations
StressInit ==
    /\ users = [u \in 1..NUsers |-> UserRow(PARTICIPANT)]
    /\ leaders = {}
    /\ \E V \in {c \in Capacities : c <= NUsers} :
          workshops = (1 :> WorkshopRow("Intro", "", 3600, 90, V))
    /\ regs = {}
    /\ skills = SeedSkills
    /\ userSkills = {}
    /\ clock = 0
    /\ last = Response(0, "", "", 0)
    /\ procs = [p \in Workers |-> Idle]

StressSpec == StressInit /\ [][StressNext]_vars

\* --------------------------------------------- workshop management, whole
\* Python truthiness of a payload value
truthy(v) ==
    CASE v.type = "str" -> v.s # ""
      [] v.type = "int" -> v.n # 0
      [] OTHER -> FALSE

\* every 400 answer with its 'message'
BadRequest(message) == Response(400, message, "", 0)
\* routes.py:659-668  'id': new_workshop.WorkshopId
Created(id) == Response(201, "Workshop created successfully.", "", id)

\* routes.py:641-645  datetime.fromisoformat(session_datetime_str) raises
\* ValueError or TypeError
fromisoformat_raises(v) == ~(isinstance_str(v) /\ v.s = "2025-09-10T03:30:00")

\* datetime.fromisoformat, in seconds of the day
fromisoformat(x) == IF x = "2025-09-10T03:30:00" THEN 12600 ELSE 0

\* the payloads of POST /workshops
CreatePayloads ==
    [title : {Missing, String(" New Title "), String("   ")},
     description : {Missing, String("About"), Number(5)},
     session_datetime : {Missing, String("2025-09-10T03:30:00"), String("tomorrow")},
     duration_min : {Missing, Number(0), Number(60), String("long")},
     capacity : {Missing, String("ten")} \cup {Number(c) : c \in -1..MaxCap}]

\* a create call that lets every caller in
CreateByAnyone(us, u) == TRUE

\* routes.py:606  user.is_admin()
MayCreate(us, u) == is_admin(us, u)

\* a create call that takes any integer for the capacity
AnyCapacity(capacity) == FALSE

\* routes.py:638  not isinstance(capacity, int) or capacity <= 0
CapacityRejected(capacity) == ~isinstance_int(capacity) \/ capacity.n <= 0

\* routes.py:601-668  create_workshop: the outcomes of one call by user u
create_workshop(us, rs, wss, ck, u, data) ==
    LET required_fields == <<data.title, data.session_datetime,
                             data.duration_min, data.capacity>>
        rejected(message) == {Outcome(BadRequest(message), rs, wss, ck)}
        id == Cardinality(DOMAIN wss) + 1
        description == IF isinstance_str(data.description)
                          THEN data.description.s ELSE ""
    IN  IF ~MayCreate(us, u)
        THEN {Outcome(Forbidden, rs, wss, ck)}
        ELSE IF \A f \in DOMAIN data : data[f] = Missing
        THEN rejected("No JSON data provided.")
        ELSE IF \E i \in 1..4 : required_fields[i] = Missing
        THEN rejected("Missing required fields")
        ELSE IF ~isinstance_str(data.title) \/ strip(data.title.s) = ""
        THEN rejected("Title must be a non-empty string.")
        ELSE IF truthy(data.description) /\ ~isinstance_str(data.description)
        THEN rejected("Description must be a string.")
        ELSE IF ~isinstance_int(data.duration_min) \/ data.duration_min.n <= 0
        THEN rejected("Duration must be a positive integer.")
        ELSE IF CapacityRejected(data.capacity)
        THEN rejected("Capacity must be a non-negative integer.")
        ELSE IF fromisoformat_raises(data.session_datetime)
        THEN rejected("session_datetime must be a valid ISO 8601 datetime string")
        ELSE {Outcome(Created(id), rs,
                      wss @@ (id :> WorkshopRow(strip(data.title.s), description,
                                                fromisoformat(data.session_datetime.s),
                                                data.duration_min.n, data.capacity.n)),
                      ck)}

\* the payloads of PATCH /workshops/<w_id>; 'other' is a key the handler
\* does not know
PatchPayloads ==
    [title : {Missing, String(" New Title "), String("   "), Number(5)},
     description : {Missing, String("About"), Number(5)},
     capacity : {Missing, String("ten")} \cup {Number(c) : c \in -1..MaxCap},
     other : {Missing, Number(1)}]

\* routes.py:963-975  one call of a notification hook
HookCall(hook, w_id, user_ids) == [hook |-> hook, w_id |-> w_id, user_ids |-> user_ids]
_notify_waitlisted_participants(w_id) ==
    HookCall("_notify_waitlisted_participants", w_id, {})
_notify_removed_participants(w_id, canceled_user_ids) ==
    HookCall("_notify_removed_participants", w_id, canceled_user_ids)

\* what an edit leaves behind: an Outcome and the hook calls it made, in order
Edited(o, hooks) ==
    [resp |-> o.resp, regs |-> o.regs, workshops |-> o.workshops,
     clock |-> o.clock, hooks |-> hooks]

\* an edit that lets every caller in
EditByAnyone(us, ls, u, w) == TRUE

\* routes.py:678  user.can_manage_workshop(w_id)
MayEdit(us, ls, u, w) == can_manage_workshop(us, ls, u, w)

\* an edit that writes each field to the database as soon as it has validated
WriteThrough(wss, edited) == edited

\* routes.py:691, 697, 734  what a rejected edit leaves of the fields assigned
\* before the failing one: the assignments are on the session's object and
\* no commit follows, the table is as it was
Discarded(wss, edited) == wss

\* an edit that takes the capacity branch whatever the payload holds
CapacityAlways(data) == TRUE

\* routes.py:699  if 'capacity' in data
CapacityInPayload(data) == data.capacity # Missing

\* routes.py:670-747  update_workshop, the whole handler: the outcomes of one
\* call by user u with the payload data
PatchWorkshop(us, ls, rs, wss, ck, u, w, data) ==
    LET titled == IF data.title # Missing
                     THEN [wss EXCEPT ![w].Title = strip(data.title.s)] ELSE wss
        described == IF data.description # Missing
                        THEN [titled EXCEPT ![w].Description = data.description.s]
                        ELSE titled
        new_capacity == data.capacity.n
        registered_count == _get_registered_count(rs, w)
        waitlist_hook == IF new_capacity > wss[w].MaxCapacity
                            THEN <<_notify_waitlisted_participants(w)>> ELSE <<>>
        rejected(message, edited) ==
            {Edited(Outcome(BadRequest(message), rs, Discarded(wss, edited), ck), <<>>)}
    IN  IF w \notin DOMAIN wss
        THEN {Edited(Outcome(NotFound, rs, wss, ck), <<>>)}
        ELSE IF ~MayEdit(us, ls, u, w)
        THEN {Edited(Outcome(Forbidden, rs, wss, ck), <<>>)}
        ELSE IF \A f \in DOMAIN data : data[f] = Missing
        THEN rejected("No data provided.", wss)
        ELSE IF /\ data.title # Missing
                /\ (~isinstance_str(data.title) \/ strip(data.title.s) = "")
        THEN rejected("Title must be a non-empty string.", wss)
        ELSE IF data.description # Missing /\ ~isinstance_str(data.description)
        THEN rejected("Description must be a string.", titled)
        ELSE IF CapacityInPayload(data)
        THEN IF ~isinstance_int(data.capacity) \/ new_capacity < 0
             THEN rejected("Capacity must be a non-negative integer.", described)
             ELSE IF new_capacity < registered_count
             THEN {IF RemovalFailed(S)
                      THEN Edited(UpdateAfterRemoval(rs, described, ck, w, new_capacity, S),
                                  <<>>)
                      ELSE Edited(UpdateAfterRemoval(rs, described, ck, w, new_capacity, S),
                                  <<_notify_removed_participants(w, {r.UserId : r \in S})>>
                                      \o waitlist_hook)
                   : S \in RowsToCancel(rs, w, registered_count - new_capacity)}
             ELSE {Edited(Outcome(Updated(new_capacity), rs,
                                  [described EXCEPT ![w].MaxCapacity = new_capacity], ck),
                          waitlist_hook)}
        ELSE IF data.title = Missing /\ data.description = Missing
        THEN rejected("No updatable fields provided", wss)
        ELSE {Edited(Outcome(Updated(wss[w].MaxCapacity), rs, described, ck), <<>>)}

\* ------------------------------------------------ the organisers' requests
CreateWorkshop(u) ==
    /\ Cardinality(DOMAIN workshops) < MaxWorkshops
    /\ \E data \in CreatePayloads :
          \E o \in create_workshop(users, regs, workshops, clock, u, data) : Serve(o)

EditWorkshop(u, w) ==
    \E data \in PatchPayloads :
        \E o \in PatchWorkshop(users, leaders, regs, workshops, clock, u, w, data) :
            Serve(o)

DeskNext ==
    \/ \E u \in DOMAIN users : CreateWorkshop(u)
    \/ \E u \in DOMAIN users, w \in WorkshopIds(workshops) : EditWorkshop(u, w)

\* The users and the leader assignment of test_scenarios.py:69-75, 103-105:
\* an admin, the leader of workshop 1 and a participant.  Workshop 1 has two
\* seats, both taken, the leader's after the participant's
DeskInit ==
    /\ users = <<UserRow(ADMIN), UserRow(WORKSHOP_LEADER), UserRow(PARTICIPANT)>>
    /\ leaders = {WorkshopLeaderRow(1, 2)}
    /\ workshops = (1 :> WorkshopRow("Intro", "", 3600, 90, 2))
    /\ regs = {RegistrationRow(1, 3, 1, StatusSet(REGISTERED), 0),
               RegistrationRow(1, 2, 1, StatusSet(REGISTERED), 1)}
    /\ skills = SeedSkills
    /\ userSkills = {}
    /\ clock = 1
    /\ last = Response(0, "", "", 0)
    /\ procs = [p \in Workers |-> Idle]

DeskSpec == DeskInit /\ [][DeskNext]_vars

\* ---------------------------------------------------- skills and profile
\* what a skills handler leaves behind: its response and the two tables
SkillOutcome(resp, sk, usk) == [resp |-> resp, skills |-> sk, userSkills |-> usk]

\* routes.py:445-448
SkillsUpdated(count) == Response(200, "User skills updated successfully.", "", count)
\* routes.py:498-501
SkillExists(id) == Response(409, "Skill already exists", "", id)
\* routes.py:508-511  'id': new_skill.SkillId
SkillAdded(id) == Response(201, "Skill added successfully.", "", id)

\* one item of a skills payload: a JSON object with 'name' and 'grade', or
\* something that is no object
SkillItems ==
    [dict : {TRUE},
     name : {Missing, String(" Python"), String("javascript"), String("cobol")},
     grade : {Missing, Number(4), String("high")}]
    \cup {[dict |-> FALSE, name |-> Missing, grade |-> Missing]}

\* the payloads of POST /user/skills: a JSON list of items, or no list
SkillsPayloads ==
    {[list |-> TRUE, items |-> items] :
        items \in UNION {[1..n -> SkillItems] : n \in 0..MaxList}}
    \cup {[list |-> FALSE, items |-> <<>>]}

\* routes.py:397-398, 414-416  allowed_skill_map.get(name.strip().lower()):
\* the ids the map may hold for the name (one id, unless two skills have
\* the same lower-cased name; the later row of the query then wins, and the
\* query has no ORDER BY)
allowed_skill_map(sk, name) ==
    {i \in DOMAIN sk : lower(sk[i]) = lower(strip(name))}

\* routes.py:401-417  the message of the 400 an item is rejected with, or ""
ItemRejected(sk, skill_data) ==
    IF ~skill_data.dict
    THEN "Item is not a valid object."
    ELSE IF ~truthy(skill_data.name) \/ ~isinstance_str(skill_data.name)
    THEN "Missing or invalid skill name."
    ELSE IF ~isinstance_int(skill_data.grade)
    THEN "Grade must be an integer."
    ELSE IF allowed_skill_map(sk, skill_data.name.s) = {}
    THEN "Skill does not exist."
    ELSE ""

\* a set_user_skills that adds the payload's rows to the rows of the user
KeepOldRows(usk, u) == usk

\* routes.py:424  UserSkill.query.filter_by(UserId=user.UserId).delete()
DeleteUserSkills(usk, u) == {r \in usk : r.UserId # u}

\* routes.py:379-450  set_user_skills: the outcomes of one call by user u
set_user_skills(sk, usk, u, data) ==
    LET n == Len(data.items)
        bad == {i \in 1..n : ItemRejected(sk, data.items[i]) # ""}
        first == CHOOSE i \in bad : \A j \in bad : i <= j
    IN  IF ~data.list
        THEN {SkillOutcome(BadRequest("Request body must be a JSON list of skills."),
                           sk, usk)}
        ELSE IF bad # {}
        THEN {SkillOutcome(BadRequest(ItemRejected(sk, data.items[first])), sk, usk)}
        ELSE {SkillOutcome(SkillsUpdated(n), sk,
                           DeleteUserSkills(usk, u) \cup
                               {UserSkillRow(u, skill_id[i], data.items[i].grade.n)
                                : i \in 1..n})
              : skill_id \in {f \in [1..n -> DOMAIN sk] :
                                \A i \in 1..n :
                                    f[i] \in allowed_skill_map(sk, data.items[i].name.s)}}

\* the payloads of POST /skills: {} or {'name': value}
AddSkillPayloads ==
    [name : {Missing, Number(5), String("   "), String("Python"), String(" SQL "),
             String("sql"), String("École"), String("école")}]

\* an add_skill that lets every caller in
AddByAnyone(us, u) == TRUE

\* routes.py:474  user.is_admin()
MayAddSkill(us, u) == is_admin(us, u)

\* routes.py:496  Skill.query.filter(func.lower(Skill.Name) == normalized_name)
ExistingSkill(sk, normalized_name) ==
    {i \in DOMAIN sk : func_lower(sk[i]) = normalized_name}

\* models.py:128  Name = db.Column(db.Text, unique=True, nullable=False)
NameTaken(sk, name) == \E i \in DOMAIN sk : sk[i] = name

\* routes.py:467-511  add_skill: the outcomes of one call by user u
add_skill(us, sk, usk, u, data) ==
    LET skill_name == data.name
        normalized_name == lower(strip(skill_name.s))
    IN  IF ~MayAddSkill(us, u)
        THEN {SkillOutcome(Forbidden, sk, usk)}
        ELSE IF skill_name = Missing
        THEN {SkillOutcome(BadRequest("No JSON data provided."), sk, usk)}
        ELSE IF \/ ~truthy(skill_name)
                \/ ~isinstance_str(skill_name)
                \/ strip(skill_name.s) = ""
        THEN {SkillOutcome(BadRequest("Skill name must be a non-empty string."), sk, usk)}
        ELSE IF ExistingSkill(sk, normalized_name) # {}
        THEN {SkillOutcome(SkillExists(existing_skill), sk, usk)
              : existing_skill \in ExistingSkill(sk, normalized_name)}
        ELSE IF NameTaken(sk, strip(skill_name.s))
        THEN {SkillOutcome(InternalError, sk, usk)}
        ELSE {SkillOutcome(SkillAdded(Len(sk) + 1),
                           Append(sk, strip(skill_name.s)), usk)}

\* models.py:53-92  the attributes of a Users instance
UsersAttributes ==
    {"UserId", "Name", "Email", "_role", "Role", "CreatedDate", "SupabaseId",
     "AvatarUrl", "registrations", "skills", "led_workshops"}

\* the answer of GET /user/profile: the code and, of the body, the two
\* workshop lists and the skills
Profile(code, registered, waitlisted, skills_data) ==
    [code |-> code, registered |-> registered, waitlisted |-> waitlisted,
     skills |-> skills_data]

\* routes.py:336-374  get_user_profile.  The lists are built from the rows'
\* own Status (the getter on an instance); the body then reads
\* user.HasFilledSkillsQuestionnaire, and an attribute the instance does not
\* have raises AttributeError: the request is answered 500
get_user_profile(rs, sk, usk, u) ==
    LET registrations == {r \in rs : r.UserId = u}
        registered_workshop_ids ==
            {r.WorkshopId : r \in {q \in registrations :
                                      StatusGet(q.StatusInt) = REGISTERED}}
        waitlisted_workshop_ids ==
            {r.WorkshopId : r \in {q \in registrations :
                                      /\ StatusGet(q.StatusInt) # REGISTERED
                                      /\ StatusGet(q.StatusInt) = WAITLISTED}}
        skills_data == {[name |-> sk[r.SkillId], grade |-> r.Grade]
                        : r \in {q \in usk : q.UserId = u}}
    IN  IF "HasFilledSkillsQuestionnaire" \in UsersAttributes
        THEN Profile(200, registered_workshop_ids, waitlisted_workshop_ids, skills_data)
        ELSE Profile(500, {}, {}, {})

ServeSkills(o) ==
    /\ last' = o.resp
    /\ skills' = o.skills
    /\ userSkills' = o.userSkills
    /\ UNCHANGED <<users, leaders, workshops, regs, clock, procs>>

SetUserSkills(u) ==
    \E data \in SkillsPayloads :
        \E o \in set_user_skills(skills, userSkills, u, data) : ServeSkills(o)

AddSkill(u) ==
    /\ Len(skills) < MaxSkills
    /\ \E data \in AddSkillPayloads :
          \E o \in add_skill(users, skills, userSkills, u, data) : ServeSkills(o)

GetUserProfile(u) ==
    /\ last' = get_user_profile(regs, skills, userSkills, u)
    /\ UNCHANGED <<users, leaders, skills, userSkills, workshops, regs, clock, procs>>

SkillNext ==
    \/ \E u \in DOMAIN users : SetUserSkills(u)
    \/ \E u \in DOMAIN users : AddSkill(u)
    \/ \E u \in DOMAIN users : GetUserProfile(u)

\* test_scenarios.py:69-118  an admin and a participant who has the skill
\* python with grade 1, is REGISTERED for workshop 1 and WAITLISTED for
\* workshop 2, which has one seat less than it has takers
SkillInit ==
    /\ users = <<UserRow(ADMIN), UserRow(PARTICIPANT)>>
    /\ leaders = {}
    /\ workshops = (1 :> WorkshopRow("Intro", "", 3600, 90, 1)
                 @@ 2 :> WorkshopRow("Talk", "", 9000, 60, 0))
    /\ regs = {RegistrationRow(1, 2, 1, StatusSet(REGISTERED), 0),
               RegistrationRow(1, 2, 2, StatusSet(WAITLISTED), 1)}
    /\ skills = SeedSkills
    /\ userSkills = {UserSkillRow(2, 1, 1)}
    /\ clock = 1
    /\ last = Response(0, "", "", 0)
    /\ procs = [p \in Workers |-> Idle]

SkillSpec == SkillInit /\ [][SkillNext]_vars

\* ------------------------------------------------------------ the claims
\* The vocabulary of the claims, read off the rows as they are stored
StatusOf(rs, u, w) == {StatusGet(r.StatusInt) : r \in ExistingRegistration(rs, u, w)}

registeredCount(rs, w) ==
    Cardinality({r \in rs : r.WorkshopId = w /\ StatusGet(r.StatusInt) = REGISTERED})

\* the workshops other than w that u is REGISTERED for and that overlap w by
\* more than the tolerance
RegisteredConflicts(rs, wss, u, w) ==
    {x \in DOMAIN wss \ {w} :
        /\ REGISTERED \in StatusOf(rs, u, x)
        /\ overlap_duration(wss[w], wss[x]) > ALLOWED_OVERLAP}

\* C1: served one at a time, the requests never leave a workshop with more
\* REGISTERED registrations than its capacity.
C1_CapacityInvariant ==
    \A w \in DOMAIN workshops :
        registeredCount(regs, w) <= workshops[w].MaxCapacity

\* C1 witness: a workshop with seats is full and a later registrant waits.
C1_Witness ==
    \E w \in DOMAIN workshops :
        /\ workshops[w].MaxCapacity >= 1
        /\ registeredCount(regs, w) = workshops[w].MaxCapacity
        /\ \E r \in regs : r.WorkshopId = w /\ StatusGet(r.StatusInt) = WAITLISTED
        /\ last = Registered(WAITLISTED)

\* the users with a registration of the given status for workshop w
UsersWithStatus(rs, w, st) ==
    {r.UserId : r \in {q \in rs : q.WorkshopId = w /\ StatusGet(q.StatusInt) = st}}

\* every user's call has been answered
AllDone == \A p \in 1..NUsers : procs[p].pc = "done"

\* C2: when every user registers for a workshop with V free seats at the same
\* time, at most V of them end REGISTERED, whatever the interleaving of the
\* counts, decisions and writes.
C2_AtMostVacancyRegistered ==
    Cardinality(UsersWithStatus(regs, 1, REGISTERED)) <= workshops[1].MaxCapacity

\* C3: when the N concurrent calls for a workshop with V <= N free seats have
\* all been answered, exactly V users are REGISTERED and N - V WAITLISTED.
C3_ExactlyVacancyRegistered ==
    AllDone =>
        /\ Cardinality(UsersWithStatus(regs, 1, REGISTERED)) = workshops[1].MaxCapacity
        /\ Cardinality(UsersWithStatus(regs, 1, WAITLISTED))
              = NUsers - workshops[1].MaxCapacity

\* C4: no user ever has two registrations with status REGISTERED or
\* WAITLISTED for one workshop, not even after two register calls of the
\* same user for the same workshop that were in flight together.
C4_OneActivePerPair ==
    \A u \in DOMAIN users, w \in DOMAIN workshops :
        Cardinality(ActiveRegistration(regs, u, w)) <= 1

\* C4 witness: of two register calls of one user in flight together, both
\* having found no registration, one has inserted its row and the other is
\* at its write.
C4_Witness ==
    \E p \in 1..NProcs, q \in 1..NProcs :
        /\ p # q
        /\ procs[p].pc = "reg_commit"
        /\ procs[p].ex = NoRow
        /\ procs[q].pc = "done"
        /\ last \in {Registered(REGISTERED), Registered(WAITLISTED)}
        /\ ActiveRegistration(regs, procs[p].user, procs[p].ws) # {}

\* C5: a register call by a user who is REGISTERED for the workshop answers
\* 400 'Already signed up' with the current status and commits nothing, so
\* the same call answers the same again.
C5_AlreadyRegistered ==
    \A u \in DOMAIN users, w \in DOMAIN workshops :
        REGISTERED \in StatusOf(regs, u, w) =>
            \A o \in register_to_workshop(regs, workshops, clock, u, w) :
                /\ o.resp = AlreadySignedUp(REGISTERED)
                /\ o.regs = regs
                /\ o.workshops = workshops
                /\ register_to_workshop(o.regs, o.workshops, o.clock, u, w) = {o}

\* C5 witness: the call has been answered 'Already signed up'.
C5_Witness ==
    /\ last = AlreadySignedUp(REGISTERED)
    /\ \E r \in regs : StatusGet(r.StatusInt) = REGISTERED

\* C6: a WAITLISTED user without schedule conflict who registers while the
\* workshop has fewer REGISTERED registrations than seats ends REGISTERED.
C6_LazyPromotion ==
    \A u \in DOMAIN users, w \in DOMAIN workshops :
        ( /\ StatusOf(regs, u, w) = {WAITLISTED}
          /\ registeredCount(regs, w) < workshops[w].MaxCapacity
          /\ RegisteredConflicts(regs, workshops, u, w) = {} ) =>
            \A o \in register_to_workshop(regs, workshops, clock, u, w) :
                /\ o.resp = Registered(REGISTERED)
                /\ StatusOf(o.regs, u, w) = {REGISTERED}

\* C7: a register call that reaches the conflict check while the user is
\* REGISTERED for an overlapping workshop answers 409 naming a workshop the
\* user is REGISTERED for and that overlaps, and commits nothing.
C7_ConflictNamesRegistered ==
    \A u \in DOMAIN users, w \in DOMAIN workshops :
        ( /\ StatusOf(regs, u, w) \subseteq {CANCELLED}
          /\ RegisteredConflicts(regs, workshops, u, w) # {} ) =>
            \A o \in register_to_workshop(regs, workshops, clock, u, w) :
                /\ o.resp.code = 409
                /\ o.resp.n \in RegisteredConflicts(regs, workshops, u, w)
                /\ o.regs = regs

\* C8: a register call for a workshop that overlaps none of the user's other
\* REGISTERED workshops by more than the tolerance is not answered 409; it
\* succeeds with REGISTERED or WAITLISTED.
C8_NoConflictWithinTolerance ==
    \A u \in DOMAIN users, w \in DOMAIN workshops :
        ( /\ StatusOf(regs, u, w) \subseteq {CANCELLED}
          /\ RegisteredConflicts(regs, workshops, u, w) = {} ) =>
            \A o \in register_to_workshop(regs, workshops, clock, u, w) :
                /\ o.resp.code # 409
                /\ o.resp \in {Registered(REGISTERED), Registered(WAITLISTED)}

\* the rows a capacity edit turned from REGISTERED to CANCELLED
Demoted(rs, after, w) ==
    {r \in rs :
        /\ r.WorkshopId = w
        /\ StatusGet(r.StatusInt) = REGISTERED
        /\ StatusOf(after, r.UserId, w) = {CANCELLED}}

\* C9: a capacity edit below the number of REGISTERED registrations cancels
\* exactly the difference, latest RegisteredAt first, leaves the other
\* REGISTERED registrations REGISTERED, waitlists nobody and ends with
\* registeredCount = capacity.
C9_ShrinkDemotesExactlyDiff ==
    \A w \in DOMAIN workshops, new_capacity \in Capacities :
        new_capacity < registeredCount(regs, w) =>
            \A o \in UpdateCapacity(regs, workshops, clock, w, new_capacity) :
                LET registered == {r \in regs : /\ r.WorkshopId = w
                                                /\ StatusGet(r.StatusInt) = REGISTERED}
                    demoted == Demoted(regs, o.regs, w)
                IN  /\ Cardinality(demoted) = registeredCount(regs, w) - new_capacity
                    /\ \A d \in demoted, k \in registered \ demoted :
                          d.RegisteredAt >= k.RegisteredAt
                    /\ \A k \in registered \ demoted :
                          StatusOf(o.regs, k.UserId, w) = {REGISTERED}
                    /\ registeredCount(o.regs, w) = new_capacity
                    /\ o.workshops[w].MaxCapacity = new_capacity

\* C10 (the success half): unregister by a user with a REGISTERED or
\* WAITLISTED registration sets it to CANCELLED and answers with the status
\* it had.
C10_UnregisterSucceeds ==
    \A u \in DOMAIN users, w \in DOMAIN workshops :
        \A r \in ActiveRegistration(regs, u, w) :
            \A o \in unregister_to_workshop(regs, workshops, clock, u, w) :
                /\ o.resp = Cancelled(StatusGet(r.StatusInt))
                /\ StatusOf(o.regs, u, w) = {CANCELLED}

\* C11: an unregister call by a user with a REGISTERED or WAITLISTED
\* registration leaves that registration with a RegisteredAt later than the
\* one it had.
C11_UnregisterRefreshesRegisteredAt ==
    \A u \in DOMAIN users, w \in DOMAIN workshops :
        \A r \in ActiveRegistration(regs, u, w) :
            \A o \in unregister_to_workshop(regs, workshops, clock, u, w) :
                \A q \in ExistingRegistration(o.regs, u, w) :
                    q.RegisteredAt > r.RegisteredAt

\* C12: an unregister call leaves every registration other than the caller's
\* for that workshop as it was (status and RegisteredAt), adds and removes
\* none, and leaves the workshops as they were.
C12_UnregisterFrame ==
    \A u \in DOMAIN users, w \in WorkshopIds(workshops) :
        \A o \in unregister_to_workshop(regs, workshops, clock, u, w) :
            /\ o.workshops = workshops
            /\ Cardinality(o.regs) = Cardinality(regs)
            /\ \A r \in regs : (r.UserId # u \/ r.WorkshopId # w) => r \in o.regs

\* C12 witness: an unregister call has been answered while one user is
\* REGISTERED for a workshop and another waits for it.
C12_Witness ==
    /\ last = InternalError
    /\ \E w \in DOMAIN workshops, a \in DOMAIN users, b \in DOMAIN users :
          /\ a # b
          /\ StatusOf(regs, a, w) = {REGISTERED}
          /\ StatusOf(regs, b, w) = {WAITLISTED}

\* C13: a capacity edit to more seats than before, and to no fewer than the
\* REGISTERED registrations, changes the workshop's capacity and nothing
\* else.
C13_GrowChangesOnlyCapacity ==
    \A w \in DOMAIN workshops, new_capacity \in Capacities :
        ( /\ new_capacity > workshops[w].MaxCapacity
          /\ new_capacity >= registeredCount(regs, w) ) =>
            \A o \in UpdateCapacity(regs, workshops, clock, w, new_capacity) :
                /\ o.regs = regs
                /\ o.workshops = [workshops EXCEPT ![w].MaxCapacity = new_capacity]

\* C14: the demotions of a capacity edit and its capacity are committed
\* together: whenever an edit's demotions are in the table, the workshop has
\* the edit's capacity.
C14_DemotionsWithCapacity ==
    \A p \in 1..NProcs :
        (procs[p].pc = "upd_commit" /\ procs[p].diff > 0) =>
            workshops[procs[p].ws].MaxCapacity = procs[p].n

C16_FailuresWriteNothing ==
    \A u \in DOMAIN users, w \in WorkshopIds(workshops) :
        \A o \in register_to_workshop(regs, workshops, clock, u, w) :
            o.resp.code # 200 =>
                /\ o.resp.code \in {404, 400, 409}
                /\ o.regs = regs
                /\ o.workshops = workshops

\* C16 witness: a register call has been answered 409 and the user's other
\* registration is in the table.
C16_Witness ==
    /\ last.code = 409
    /\ \E r \in regs : r.WorkshopId = last.n

\* C17: a register call by a WAITLISTED user is answered 'Already on
\* waitlist' exactly when the workshop has no vacancy (as many REGISTERED
\* registrations as seats, or more).
C17_AlreadyWaitlistedIffFull ==
    \A u \in DOMAIN users, w \in DOMAIN workshops :
        StatusOf(regs, u, w) = {WAITLISTED} =>
            \A o \in register_to_workshop(regs, workshops, clock, u, w) :
                (o.resp = AlreadyOnWaitlist(WAITLISTED))
                    <=> (registeredCount(regs, w) >= workshops[w].MaxCapacity)

\* C18: a register call that succeeds stores REGISTERED when the workshop has
\* fewer REGISTERED registrations than seats and WAITLISTED otherwise, and
\* its message is the one of the stored status.
C18_StatusByVacancy ==
    \A u \in DOMAIN users, w \in DOMAIN workshops :
        \A o \in register_to_workshop(regs, workshops, clock, u, w) :
            o.resp.code = 200 =>
                LET decided == IF registeredCount(regs, w) < workshops[w].MaxCapacity
                                  THEN REGISTERED ELSE WAITLISTED
                IN  /\ StatusOf(o.regs, u, w) = {decided}
                    /\ o.resp = Registered(decided)

\* the (user, workshop) pairs that have a row
Pairs(rs) == {<<r.UserId, r.WorkshopId>> : r \in rs}

\* C19: a successful register call of a user with a row for the workshop
\* updates that row (decided status, RegisteredAt of the call) and inserts
\* none; without a row it inserts exactly one.  No pair ever has two rows and
\* no call removes a row.
C19_OneRowPerPair ==
    /\ \A u \in DOMAIN users, w \in DOMAIN workshops :
          Cardinality(ExistingRegistration(regs, u, w)) <= 1
    /\ \A u \in DOMAIN users, w \in DOMAIN workshops :
          \A o \in register_to_workshop(regs, workshops, clock, u, w) :
              o.resp.code = 200 =>
                  /\ regs \ ExistingRegistration(regs, u, w) \subseteq o.regs
                  /\ Cardinality(o.regs) =
                        IF ExistingRegistration(regs, u, w) # {}
                           THEN Cardinality(regs) ELSE Cardinality(regs) + 1
                  /\ \A q \in ExistingRegistration(o.regs, u, w) :
                        /\ StatusGet(q.StatusInt) = o.resp.status
                        /\ q.RegisteredAt = o.clock
    /\ \A u \in DOMAIN users, w \in WorkshopIds(workshops) :
          \A o \in register_to_workshop(regs, workshops, clock, u, w)
                   \cup unregister_to_workshop(regs, workshops, clock, u, w)
                   \cup update_workshop(users, leaders, regs, workshops, clock, u, w) :
              /\ Pairs(regs) \subseteq Pairs(o.regs)
              /\ Cardinality(o.regs) >= Cardinality(regs)

\* C19 witness: the only registration there is has just been answered 'Added
\* to waitlist' for a workshop with seats; it was decided against a count of
\* at least one row, so the row was there before the call and was updated.
C19_Witness ==
    /\ AllIdle
    /\ last = Registered(WAITLISTED)
    /\ Cardinality(regs) = 1
    /\ \E r \in regs : /\ StatusGet(r.StatusInt) = WAITLISTED
                       /\ workshops[r.WorkshopId].MaxCapacity >= 1

\* C20: a capacity edit that cancels a REGISTERED registration also cancels
\* every REGISTERED registration of the workshop with a later RegisteredAt
\* (the time of the registration's latest successful register call).
C20_LaterDemotedFirst ==
    \A w \in DOMAIN workshops, new_capacity \in Capacities :
        \A o \in UpdateCapacity(regs, workshops, clock, w, new_capacity) :
            \A a \in Demoted(regs, o.regs, w), b \in regs :
                ( /\ b.WorkshopId = w
                  /\ StatusGet(b.StatusInt) = REGISTERED
                  /\ a.RegisteredAt < b.RegisteredAt ) =>
                    b \in Demoted(regs, o.regs, w)

\* C20 witness: a shrinking edit has been answered; the earlier of two
\* registrations is REGISTERED and the later one CANCELLED.
C20_Witness ==
    /\ last.code = 200
    /\ last.text = "Workshop updated successfully."
    /\ \E a \in regs, b \in regs :
          /\ a.WorkshopId = b.WorkshopId
          /\ a.RegisteredAt < b.RegisteredAt
          /\ StatusGet(a.StatusInt) = REGISTERED
          /\ StatusGet(b.StatusInt) = CANCELLED
          /\ workshops[a.WorkshopId].MaxCapacity = last.n

\* C21: the conflict check names a workshop only because of a REGISTERED
\* registration of the same user for another, overlapping workshop; WAITLISTED
\* and CANCELLED rows, other users' rows and the user's row for the candidate
\* never make it return a conflict.
C21_OnlyRegisteredRowsConflict ==
    \A u \in DOMAIN users, w \in DOMAIN workshops :
        \A c \in _check_for_registration_overlap(regs, workshops, u, w) :
            c # 0 =>
                /\ c # w
                /\ \E r \in regs : /\ r.UserId = u
                                   /\ r.WorkshopId = c
                                   /\ StatusGet(r.StatusInt) = REGISTERED

\* C30: whatever the interleaving of the requests' steps, no committed state
\* has a workshop with more REGISTERED registrations than its capacity.
C30_CapacityUnderInterleaving ==
    \A w \in DOMAIN workshops :
        Cardinality({r \in regs : /\ r.WorkshopId = w
                                  /\ StatusGet(r.StatusInt) = REGISTERED})
            <= workshops[w].MaxCapacity

\* the caller is an ADMIN or has a WorkshopLeader row for workshop w
Authorised(u, w) ==
    \/ users[u].Role = ADMIN
    \/ \E l \in leaders : l.LeaderId = u /\ l.WorkshopId = w

\* C22: an edit by a caller who is neither an ADMIN nor assigned as leader of
\* that workshop is answered Forbidden and changes neither the workshop's
\* title, description and capacity nor any registration; whatever an edit
\* changes, its caller was authorised.
C22_EditOnlyByAdminOrLeader ==
    \A u \in DOMAIN users, w \in DOMAIN workshops, data \in PatchPayloads :
        \A o \in PatchWorkshop(users, leaders, regs, workshops, clock, u, w, data) :
            /\ ~Authorised(u, w) =>
                  /\ o.resp.code = 403
                  /\ o.workshops = workshops
                  /\ o.regs = regs
            /\ (o.workshops # workshops \/ o.regs # regs) => Authorised(u, w)

\* C22 witness: a request has been answered Forbidden while a user with the
\* WORKSHOP_LEADER role leads one workshop and not the other, and there are
\* registrations to protect.
C22_Witness ==
    /\ last = Forbidden
    /\ regs # {}
    /\ \E u \in DOMAIN users, w \in DOMAIN workshops, x \in DOMAIN workshops :
          /\ users[u].Role = WORKSHOP_LEADER
          /\ Authorised(u, x)
          /\ ~Authorised(u, w)

\* C23: a create call succeeds only for a caller whose Role is ADMIN; for a
\* WORKSHOP_LEADER or a PARTICIPANT it is answered Forbidden and the set of
\* workshops is unchanged.
C23_CreateOnlyByAdmin ==
    \A u \in DOMAIN users, data \in CreatePayloads :
        \A o \in create_workshop(users, regs, workshops, clock, u, data) :
            /\ users[u].Role # ADMIN =>
                  /\ o.resp.code = 403
                  /\ o.workshops = workshops
            /\ o.workshops # workshops => users[u].Role = ADMIN

\* C23 witness: a workshop has been created next to the seeded one.
C23_Witness ==
    /\ last.code = 201
    /\ last.n \in DOMAIN workshops
    /\ Cardinality(DOMAIN workshops) = 2

\* C24: an edit answered with a validation error (400) persists nothing:
\* the workshops and the registrations are as before, also when fields of
\* the payload had validated before the failing one.
C24_RejectedEditPersistsNothing ==
    \A u \in DOMAIN users, w \in DOMAIN workshops, data \in PatchPayloads :
        \A o \in PatchWorkshop(users, leaders, regs, workshops, clock, u, w, data) :
            o.resp.code = 400 =>
                /\ o.workshops = workshops
                /\ o.regs = regs

\* C24 witness: an edit has been rejected for its description, the field that
\* is validated after the title, and the workshop still has its seeded title.
C24_Witness ==
    /\ last = BadRequest("Description must be a string.")
    /\ workshops[1].Title = "Intro"
    /\ regs # {}

\* C25: a create call by an admin, its other fields valid, is accepted exactly
\* when the capacity is an integer >= 0 and the duration an integer > 0; and
\* every workshop has capacity >= 0 and duration > 0.
C25_CreateAcceptsNonNegativeCapacity ==
    /\ \A w \in DOMAIN workshops :
          workshops[w].MaxCapacity >= 0 /\ workshops[w].DurationMin > 0
    /\ \A u \in DOMAIN users, data \in CreatePayloads :
          ( /\ users[u].Role = ADMIN
            /\ data.title = String(" New Title ")
            /\ data.description \in {Missing, String("About")}
            /\ data.session_datetime = String("2025-09-10T03:30:00") ) =>
              \A o \in create_workshop(users, regs, workshops, clock, u, data) :
                  o.resp.code = 201 <=>
                      /\ data.capacity.type = "int" /\ data.capacity.n >= 0
                      /\ data.duration_min.type = "int" /\ data.duration_min.n > 0

\* the positions of the calls of one hook among the calls of an edit
CallsOf(hooks, hook) == {i \in 1..Len(hooks) : hooks[i].hook = hook}

\* C26: an edit that is applied calls the waitlist hook exactly once, with the
\* workshop id, when the payload has a capacity above the old one, and not at
\* all otherwise; it calls the removed-participants hook with exactly the
\* users whose registrations it turned from REGISTERED to CANCELLED.
C26_HooksAsSpecified ==
    \A u \in DOMAIN users, w \in DOMAIN workshops, data \in PatchPayloads :
        \A o \in PatchWorkshop(users, leaders, regs, workshops, clock, u, w, data) :
            o.resp.code = 200 =>
                LET waitlisted == CallsOf(o.hooks, "_notify_waitlisted_participants")
                    removed == CallsOf(o.hooks, "_notify_removed_participants")
                    demoted == {r.UserId : r \in Demoted(regs, o.regs, w)}
                    grows == /\ data.capacity.type = "int"
                             /\ data.capacity.n > workshops[w].MaxCapacity
                IN  /\ Cardinality(waitlisted) = IF grows THEN 1 ELSE 0
                    /\ \A i \in waitlisted : o.hooks[i].w_id = w
                    /\ \A i \in removed : /\ o.hooks[i].w_id = w
                                          /\ o.hooks[i].user_ids = demoted
                    /\ demoted # {} => removed # {}

\* the (skill, grade) pairs of user u, the skill by its lower-cased name
SkillPairs(sk, usk, u) ==
    {<<lower(sk[r.SkillId]), r.Grade>> : r \in {q \in usk : q.UserId = u}}

\* C27: a successful set-skills call leaves the user with exactly the
\* (skill, grade) pairs of the payload, none for an empty list, and leaves
\* the other users' skills alone; a call rejected with 400 leaves all skills
\* as they were.
C27_SetSkillsReplaces ==
    \A u \in DOMAIN users, data \in SkillsPayloads :
        \A o \in set_user_skills(skills, userSkills, u, data) :
            /\ o.resp.code \in {200, 400}
            /\ o.resp.code = 200 =>
                  /\ SkillPairs(o.skills, o.userSkills, u)
                        = {<<lower(strip(data.items[i].name.s)), data.items[i].grade.n>>
                           : i \in 1..Len(data.items)}
                  /\ \A v \in DOMAIN users \ {u} :
                        {r \in o.userSkills : r.UserId = v}
                            = {r \in userSkills : r.UserId = v}
            /\ o.resp.code = 400 => o.userSkills = userSkills

\* C27 witness: the participant, seeded with python at grade 1, has replaced
\* it by another grade or skill, and the call was answered with one skill.
C27_Witness ==
    /\ last = SkillsUpdated(1)
    /\ UserSkillRow(2, 1, 1) \notin userSkills
    /\ \E r \in userSkills : r.UserId = 2

\* C28: no two skills have names that are equal ignoring case.
C28_NoTwoNamesEqualIgnoringCase ==
    \A i \in DOMAIN skills, j \in DOMAIN skills :
        i # j => lower(skills[i]) # lower(skills[j])

\* C29: the profile is answered, and lists under 'registered' exactly the
\* workshops of the user's REGISTERED registrations and under 'waitlisted'
\* exactly those of the WAITLISTED ones.
C29_ProfileListsByStatus ==
    \A u \in DOMAIN users :
        LET profile == get_user_profile(regs, skills, userSkills, u)
        IN  /\ profile.code = 200
            /\ profile.registered
                  = {w \in DOMAIN workshops : REGISTERED \in StatusOf(regs, u, w)}
            /\ profile.waitlisted
                  = {w \in DOMAIN workshops : WAITLISTED \in StatusOf(regs, u, w)}
            /\ profile.registered \cap profile.waitlisted = {}

\* C31: with the requests served one at a time, no user is REGISTERED for two
\* different workshops whose intervals overlap by more than the tolerance.
C31_ScheduleInvariant ==
    \A u \in DOMAIN users, w \in DOMAIN workshops, x \in DOMAIN workshops :
        ( /\ w # x
          /\ REGISTERED \in StatusOf(regs, u, w)
          /\ REGISTERED \in StatusOf(regs, u, x) ) =>
            overlap_duration(workshops[w], workshops[x]) <= ALLOWED_OVERLAP

\* C31 witness: a user REGISTERED for one workshop has asked for another that
\* overlaps it by more than the tolerance, and has been answered Conflict.
C31_Witness ==
    /\ last.code = 409
    /\ \E u \in DOMAIN users, x \in DOMAIN workshops :
          /\ REGISTERED \in StatusOf(regs, u, last.n)
          /\ x # last.n
          /\ overlap_duration(workshops[x], workshops[last.n]) > ALLOWED_OVERLAP
          /\ REGISTERED \notin StatusOf(regs, u, x)

C33_NoDemotionAtOrAboveCount ==
    \A w \in DOMAIN workshops, new_capacity \in Capacities :
        new_capacity >= registeredCount(regs, w) =>
            \A o \in UpdateCapacity(regs, workshops, clock, w, new_capacity) :
                /\ o.resp = Updated(new_capacity)
                /\ o.regs = regs
                /\ o.workshops = [workshops EXCEPT ![w].MaxCapacity = new_capacity]

\* the registrations other than the one of user u for workshop w
OtherRows(rs, u, w) == {r \in rs : r.UserId # u \/ r.WorkshopId # w}

\* C35: a REGISTERED registration only ever becomes CANCELLED, never
\* WAITLISTED; a register or unregister call changes no registration but the
\* caller's own for that workshop; a capacity edit changes no WAITLISTED and
\* no CANCELLED registration.
C35_StatusMachine ==
    /\ \A u \in DOMAIN users, w \in DOMAIN workshops :
          /\ \A o \in register_to_workshop(regs, workshops, clock, u, w) :
                /\ OtherRows(o.regs, u, w) = OtherRows(regs, u, w)
                /\ REGISTERED \in StatusOf(regs, u, w) =>
                      WAITLISTED \notin StatusOf(o.regs, u, w)
          /\ \A o \in unregister_to_workshop(regs, workshops, clock, u, w) :
                /\ OtherRows(o.regs, u, w) = OtherRows(regs, u, w)
                /\ REGISTERED \in StatusOf(regs, u, w) =>
                      StatusOf(o.regs, u, w) \subseteq {REGISTERED, CANCELLED}
    /\ \A w \in DOMAIN workshops, new_capacity \in Capacities :
          \A o \in UpdateCapacity(regs, workshops, clock, w, new_capacity) :
              \A r \in regs :
                  /\ StatusGet(r.StatusInt) \in {WAITLISTED, CANCELLED} => r \in o.regs
                  /\ StatusGet(r.StatusInt) = REGISTERED =>
                        StatusOf(o.regs, r.UserId, r.WorkshopId)
                            \subseteq {REGISTERED, CANCELLED}

\* C36: the vacancy reported for a workshop is its capacity minus the number
\* of its REGISTERED registrations (WAITLISTED and CANCELLED ones do not
\* count), and with the requests served one at a time it is never negative.
C36_VacancyCountsRegistered ==
    \A w \in DOMAIN workshops :
        /\ vacant(regs, workshops, w)
              = workshops[w].MaxCapacity - registeredCount(regs, w)
        /\ vacant(regs, workshops, w) >= 0

\* C34: an edit whose payload has no capacity changes no registration and no
\* workshop's capacity and calls no hook; with a valid title (and a valid
\* description or none) an authorised caller's edit is applied and the
\* workshop has the new title.
C34_TitleEditLeavesCapacity ==
    \A u \in DOMAIN users, w \in DOMAIN workshops, data \in PatchPayloads :
        data.capacity = Missing =>
            \A o \in PatchWorkshop(users, leaders, regs, workshops, clock, u, w, data) :
                /\ o.regs = regs
                /\ o.hooks = <<>>
                /\ \A x \in DOMAIN workshops :
                      o.workshops[x].MaxCapacity = workshops[x].MaxCapacity
                /\ ( /\ Authorised(u, w)
                     /\ data.title = String(" New Title ")
                     /\ data.description \in {Missing, String("About")} ) =>
                       /\ o.resp.code = 200
                       /\ o.workshops[w].Title = "New Title"

\* C34 witness: workshop 1 has been given a new title and a description; it
\* has its two seats and both seeded registrations are REGISTERED.
C34_Witness ==
    /\ last = Updated(2)
    /\ workshops[1].Title = "New Title"
    /\ workshops[1].Description = "About"
    /\ workshops[1].MaxCapacity = 2
    /\ \A r \in regs : StatusGet(r.StatusInt) = REGISTERED

\* C37: a status set and read back is the same status, and the integer
\* stored is 1 for REGISTERED, 2 for WAITLISTED, 3 for CANCELLED, the
\* status_id; a registration left at the column default reads REGISTERED;
\* a role set and read back is the same role, stored as 1, 2 or 100; and the
\* rows of the tables are such round trips.
C37_StorageRoundTrip ==
    /\ \A s \in RegistrationStatus :
          /\ StatusGet(StatusSet(s)) = s
          /\ StatusSet(s) = status_id(s)
    /\ <<StatusSet(REGISTERED), StatusSet(WAITLISTED), StatusSet(CANCELLED)>> = <<1, 2, 3>>
    /\ StatusGet(STATUS_DEFAULT) = REGISTERED
    /\ \A r \in UserRole : RoleGet(RoleSet(r)) = r
    /\ <<RoleSet(PARTICIPANT), RoleSet(WORKSHOP_LEADER), RoleSet(ADMIN)>> = <<1, 2, 100>>
    /\ RoleGet(ROLE_DEFAULT) = PARTICIPANT
    /\ \A row \in regs : StatusSet(StatusGet(row.StatusInt)) = row.StatusInt
    /\ \A u \in DOMAIN users : users[u].Role \in UserRole

\* C37 witness: the table holds a registration of each status, stored as 1,
\* 2 and 3, the last written by a capacity edit.
C37_Witness ==
    /\ {r.StatusInt : r \in regs} = {1, 2, 3}
    /\ last.text = "Workshop updated successfully."
    /\ \E u \in DOMAIN users : users[u].Role = WORKSHOP_LEADER

\* the roles from the lowest to the highest
RoleOrder == <<PARTICIPANT, WORKSHOP_LEADER, ADMIN>>
Place(role) == CHOOSE i \in 1..3 : RoleOrder[i] = role

\* C38: a >= b on roles is true exactly when a is not below b in the order
\* PARTICIPANT < WORKSHOP_LEADER < ADMIN; has_role_level follows it,
\* can_manage_workshops is true for WORKSHOP_LEADER and ADMIN only and
\* is_admin for ADMIN only.
C38_RolesOrderedByLevel ==
    /\ \A a \in UserRole, b \in UserRole :
          UserRole_ge(a, b) <=> Place(a) >= Place(b)
    /\ \A u \in DOMAIN users :
          /\ \A b \in UserRole :
                has_role_level(users, u, b) <=> Place(users[u].Role) >= Place(b)
          /\ can_manage_workshops(users, u)
                <=> users[u].Role \in {WORKSHOP_LEADER, ADMIN}
          /\ is_admin(users, u) <=> users[u].Role = ADMIN

\* C38 witness: the table has a user of each role, one who may not manage
\* workshops, one who may, and the admin whose create call was let through.
C38_Witness ==
    /\ {users[u].Role : u \in DOMAIN users} = UserRole
    /\ \E u \in DOMAIN users : ~can_manage_workshops(users, u)
    /\ \E u \in DOMAIN users : can_manage_workshops(users, u) /\ ~is_admin(users, u)
    /\ last = Created(2)

====
